---- MODULE Spec2Model ----
(***************************************************************************)
(* Model of newsletter.py: main reads a JSON dump of chat contexts, renders *)
(* them to a text prompt, issues one completion request and writes the      *)
(* answer to newsletter_context.json and to standard output.                *)
(*                                                                          *)
(* JSON values are tagged records.  A Python str is a sequence of one-      *)
(* character strings, so that strip(), splitlines() and join() are computed *)
(* character by character.  A dict is a record over the keys its kind of    *)
(* object can carry; a key that is not in the dict holds Absent.            *)
(* Each kind of value keeps its payload in a field of its own (s, n, xs,   *)
(* kv), so that values of different kinds are compared by their field names *)
(* and never payload against payload.                                       *)
(***************************************************************************)
EXTENDS Naturals, Sequences, FiniteSets

VARIABLES
    pc,          \* position of main: the statement about to run
    argKey,      \* args.api_key (--api-key), None or a str
    envKey,      \* os.getenv("OPENAI_API_KEY"), None or a str
    doc,         \* the parsed input document, json.loads(path.read_text())
    inputRead,   \* whether the input file has been read
    passed,      \* the pre-checks of main passed so far, in order
    contexts,    \* main's local `contexts`
    lines,       \* render_contexts's local `lines`, as it stands before the join
    context,     \* main's local `context`, the rendered text
    calls,       \* number of completion requests issued
    response,    \* what the provider did with the request
    newsletter,  \* main's local `newsletter`
    outFile,     \* content of newsletter_context.json as a JSON value, or NoFile
    stdout,      \* what was printed, a sequence of texts
    err          \* how the run failed, or "none"

vars == <<pc, argKey, envKey, doc, inputRead, passed, contexts, lines, context,
          calls, response, newsletter, outFile, stdout, err>>

----------------------------------------------------------------------------
(* Bounds of the model. *)

MaxContentLen == 2
MaxCtx == 2
MaxItems == 2
MaxReplyLen == 2

----------------------------------------------------------------------------
(* JSON values and Python truthiness. *)

Null == [t |-> "null"]
Absent == [t |-> "absent"]
Unset == [t |-> "unset"]
Str(s) == [t |-> "str", s |-> s]
Num(n) == [t |-> "num", n |-> n]
List(xs) == [t |-> "list", xs |-> xs]
Obj(f) == [t |-> "obj", kv |-> f]

\* dict.get(key): the value, or None when the key is not in the dict
Get(o, k) ==
    IF k \in DOMAIN o.kv /\ o.kv[k].t # "absent" THEN o.kv[k] ELSE Null

\* bool(x) of a JSON value, as `x or default` and `if not x` evaluate it
Truthy(x) ==
    CASE x.t = "null" -> FALSE
      [] x.t = "str" -> x.s # <<>>
      [] x.t = "num" -> x.n # 0
      [] x.t = "list" -> x.xs # <<>>
      [] x.t = "obj" -> \E k \in DOMAIN x.kv : x.kv[k].t # "absent"
      [] OTHER -> FALSE

\* `x or default`
OrDefaultNoneOnly(x, default) == IF x.t = "null" THEN default ELSE x
OrDefault(x, default) == IF Truthy(x) THEN x ELSE default

----------------------------------------------------------------------------
(* Text: str.strip, str.splitlines, str.join, str(). *)

\* the whitespace str.strip() removes, as far as a TLA+ string can spell it
WhitespaceChars == {" ", "\t", "\n", "\r", "\f"}
\* the line boundaries str.splitlines() splits on, as far as spelled here
LineBreakChars == {"\n", "\r", "\f"}

RECURSIVE LStrip(_)
LStrip(s) ==
    IF s # <<>> /\ Head(s) \in WhitespaceChars THEN LStrip(Tail(s)) ELSE s

RECURSIVE RStrip(_)
RStrip(s) ==
    IF s # <<>> /\ s[Len(s)] \in WhitespaceChars
    THEN RStrip(SubSeq(s, 1, Len(s) - 1)) ELSE s

NoStrip(s) == s
Strip(s) == RStrip(LStrip(s))

RECURSIVE SplitRec(_, _)
SplitRec(s, cur) ==
    IF s = <<>> THEN (IF cur = <<>> THEN <<>> ELSE <<cur>>)
    ELSE IF Head(s) = "\r" /\ Len(s) >= 2 /\ s[2] = "\n"
         THEN <<cur>> \o SplitRec(Tail(Tail(s)), <<>>)
    ELSE IF Head(s) \in LineBreakChars
         THEN <<cur>> \o SplitRec(Tail(s), <<>>)
    ELSE SplitRec(Tail(s), Append(cur, Head(s)))

SplitLines(s) == SplitRec(s, <<>>)

RECURSIVE Join(_, _)
Join(sep, ls) ==
    IF ls = <<>> THEN <<>>
    ELSE IF Len(ls) = 1 THEN ls[1]
    ELSE ls[1] \o sep \o Join(sep, Tail(ls))

DigitChars == <<"0", "1", "2", "3", "4", "5", "6", "7", "8", "9">>

RECURSIVE Digits(_)
Digits(n) ==
    IF n < 10 THEN <<DigitChars[n + 1]>>
    ELSE Digits(n \div 10) \o <<DigitChars[(n % 10) + 1]>>

\* what an f-string puts for {x}: a str as it is, a number in decimal
\* (the repr of a list or dict is not spelled out; inputs keep those out of
\* formatted fields)
ToText(x) ==
    CASE x.t = "str" -> x.s
      [] x.t = "num" -> Digits(x.n)
      [] OTHER -> <<>>

UnknownFile == <<"u", "n", "k", "n", "o", "w", "n", " ", "f", "i", "l", "e">>
UnknownTime == <<"u", "n", "k", "n", "o", "w", "n", " ", "t", "i", "m", "e">>
UnknownName == <<"U", "n", "k", "n", "o", "w", "n">>
HeaderOpen == <<"=", "=", "=", " ">>
HeaderAt == <<" ", "@", " ">>
HeaderClose == <<" ", "=", "=", "=">>
AuthorSep == <<":", " ">>
Indent == <<" ", " ", " ", " ">>
LinkOpen == <<" ", " ", " ", " ", "[", "l", "i", "n", "k", "]", " ">>
LinkBy == <<" ", "(", "p", "o", "s", "t", "e", "d", " ", "b", "y", " ">>
LinkClose == <<")">>
DescOpen == <<" ", " ", " ", " ", "[", "d", "e", "s", "c", "r", "i", "p", "t",
               "i", "o", "n", "]", " ">>

----------------------------------------------------------------------------
(* load_contexts *)

\* the value of `contexts` when the isinstance check of line 53 is reached
LoadedValueObjectOnly(data) ==
    IF data.t = "obj" THEN Get(data, "contexts") ELSE Null
LoadedValue(data) ==
    LET fromObject == IF data.t = "obj" THEN Get(data, "contexts") ELSE Null
    IN  IF fromObject.t = "null" /\ data.t = "list" THEN data ELSE fromObject

\* load_contexts raises SystemExit("Input JSON must include a 'contexts' array.")
LoadRaises(data) == LoadedValue(data).t # "list"

\* the list load_contexts returns when it does not raise
LoadContexts(data) == LoadedValue(data)

----------------------------------------------------------------------------
(* render_contexts *)

\* `context.get(key) or []` is iterated: anything truthy but a list makes the
\* loop raise (a number is not iterable; the items of a str or the keys of a
\* dict are strs, which have no .get)
IterRaises(x) == Truthy(x) /\ x.t # "list"
Items(o, k) ==
    LET x == Get(o, k) IN IF Truthy(x) /\ x.t = "list" THEN x.xs ELSE <<>>

\* lines 67-72
MessageRaises(m) ==
    \/ m.t # "obj"
    \/ LET c == Get(m, "content") IN Truthy(c) /\ c.t # "str"

MessageLinesNoIndent(m) ==
    LET author == ToText(OrDefault(Get(m, "author"), Str(UnknownName)))
        content == ToText(OrDefault(Get(m, "content"), Str(<<>>)))
        split == SplitLines(content)
        message_lines == IF split = <<>> THEN << <<>> >> ELSE split
    IN  <<author \o AuthorSep \o message_lines[1]>>
        \o [i \in 1..(Len(message_lines) - 1) |-> message_lines[i + 1]]

MessageLines(m) ==
    LET author == ToText(OrDefault(Get(m, "author"), Str(UnknownName)))
        content == ToText(OrDefault(Get(m, "content"), Str(<<>>)))
        split == SplitLines(content)
        message_lines == IF split = <<>> THEN << <<>> >> ELSE split
    IN  <<author \o AuthorSep \o message_lines[1]>>
        \o [i \in 1..(Len(message_lines) - 1) |-> Indent \o message_lines[i + 1]]

\* lines 75-81
LinkRaises(l) == l.t # "obj"

LinkLinesAlways(l) ==
    LET url == ToText(OrDefault(Get(l, "url"), Str(<<>>)))
        posted_by == ToText(OrDefault(Get(l, "posted_by"), Str(UnknownName)))
        description == ToText(OrDefault(Get(l, "description"), Str(<<>>)))
    IN  <<LinkOpen \o url \o LinkBy \o posted_by \o LinkClose>>
        \o (IF description # <<>> THEN <<DescOpen \o description>> ELSE <<>>)

LinkLines(l) ==
    LET url == ToText(OrDefault(Get(l, "url"), Str(<<>>)))
        posted_by == ToText(OrDefault(Get(l, "posted_by"), Str(UnknownName)))
        description == ToText(OrDefault(Get(l, "description"), Str(<<>>)))
    IN  (IF url # <<>>
         THEN <<LinkOpen \o url \o LinkBy \o posted_by \o LinkClose>> ELSE <<>>)
        \o (IF description # <<>> THEN <<DescOpen \o description>> ELSE <<>>)

RECURSIVE Flatten(_)
Flatten(ss) == IF ss = <<>> THEN <<>> ELSE Head(ss) \o Flatten(Tail(ss))

\* line 64
Header(c) ==
    HeaderOpen \o ToText(OrDefault(Get(c, "source"), Str(UnknownFile)))
    \o HeaderAt \o ToText(OrDefault(Get(c, "timestamp"), Str(UnknownTime)))
    \o HeaderClose

\* one pass of the loop of line 61
ContextRaises(c) ==
    \/ c.t # "obj"
    \/ IterRaises(Get(c, "messages"))
    \/ IterRaises(Get(c, "links"))
    \/ \E i \in DOMAIN Items(c, "messages") : MessageRaises(Items(c, "messages")[i])
    \/ \E i \in DOMAIN Items(c, "links") : LinkRaises(Items(c, "links")[i])

ContextLinesLinksFirst(c) ==
    <<Header(c)>>
    \o Flatten([i \in DOMAIN Items(c, "links") |-> LinkLines(Items(c, "links")[i])])
    \o Flatten([i \in DOMAIN Items(c, "messages") |->
                    MessageLines(Items(c, "messages")[i])])
    \o << <<>> >>

ContextLines(c) ==
    <<Header(c)>>
    \o Flatten([i \in DOMAIN Items(c, "messages") |->
                    MessageLines(Items(c, "messages")[i])])
    \o Flatten([i \in DOMAIN Items(c, "links") |-> LinkLines(Items(c, "links")[i])])
    \o << <<>> >>

\* render_contexts raises (AttributeError or TypeError)
RenderRaises(cs) == \E i \in DOMAIN cs : ContextRaises(cs[i])

\* `lines` when the loop of line 61 has ended
RenderLines(cs) == Flatten([i \in DOMAIN cs |-> ContextLines(cs[i])])

\* line 85
RenderContexts(cs) == Strip(Join(<<"\n">>, RenderLines(cs)))

----------------------------------------------------------------------------
(* run_completion and the steps of main *)

\* the credentials a run can be started with: None, "" or a key
KeyValues == {Null, Str(<<>>), Str(<<"k">>)}

\* line 133
ApiKey(arg, env) == OrDefault(arg, env)

\* the exception classes of line 153
ProviderErrors ==
    {"APIError", "APIConnectionError", "APITimeoutError", "AuthenticationError"}

RECURSIVE StrUpTo(_, _)
StrUpTo(alphabet, n) ==
    IF n = 0 THEN {<<>>}
    ELSE LET shorter == StrUpTo(alphabet, n - 1)
         IN  shorter \cup {Append(s, c) : s \in shorter, c \in alphabet}

\* what the provider does with the request: it raises one of the caught
\* classes, it answers without choices (IndexError at line 102, not caught),
\* or its first choice carries a content that is None or a str
Responses ==
    {[kind |-> "error", class |-> e] : e \in ProviderErrors}
    \cup {[kind |-> "no_choices"]}
    \cup {[kind |-> "content", content |-> c] :
            c \in {Null} \cup {Str(s) : s \in StrUpTo({"a", " ", "\n"}, MaxReplyLen)}}

\* line 103
RunCompletion(r) == OrDefault(r.content, Str(<<>>))

NoFile == [t |-> "nofile"]

Fail(kind) ==
    /\ pc' = "exit"
    /\ err' = kind

\* lines 133-137
CheckKeySkipped ==
    /\ pc = "start"
    /\ pc' = "load"
    /\ passed' = Append(passed, "credential")
    /\ UNCHANGED <<argKey, envKey, doc, inputRead, contexts, lines, context, calls,
                   response, newsletter, outFile, stdout, err>>

CheckKey ==
    /\ pc = "start"
    /\ IF ~Truthy(ApiKey(argKey, envKey))
       THEN Fail("missing_key") /\ UNCHANGED passed
       ELSE /\ pc' = "load"
            /\ passed' = Append(passed, "credential")
            /\ UNCHANGED err
    /\ UNCHANGED <<argKey, envKey, doc, inputRead, contexts, lines, context, calls,
                   response, newsletter, outFile, stdout>>

\* line 139 with load_contexts, lines 49-55
Load ==
    /\ pc = "load"
    /\ inputRead' = TRUE
    /\ IF LoadRaises(doc)
       THEN Fail("input_shape") /\ UNCHANGED <<passed, contexts>>
       ELSE /\ contexts' = LoadContexts(doc)
            /\ passed' = Append(passed, "shape")
            /\ pc' = "check_empty"
            /\ UNCHANGED err
    /\ UNCHANGED <<argKey, envKey, doc, lines, context, calls, response,
                   newsletter, outFile, stdout>>

\* lines 140-141
CheckEmptySkipped ==
    /\ pc = "check_empty"
    /\ pc' = "render"
    /\ passed' = Append(passed, "non_empty")
    /\ UNCHANGED <<argKey, envKey, doc, inputRead, contexts, lines, context, calls,
                   response, newsletter, outFile, stdout, err>>

CheckEmpty ==
    /\ pc = "check_empty"
    /\ IF ~Truthy(contexts)
       THEN Fail("no_contexts") /\ UNCHANGED passed
       ELSE /\ pc' = "render"
            /\ passed' = Append(passed, "non_empty")
            /\ UNCHANGED err
    /\ UNCHANGED <<argKey, envKey, doc, inputRead, contexts, lines, context, calls,
                   response, newsletter, outFile, stdout>>

\* line 142 with render_contexts, lines 58-85; an exception of the renderer is
\* caught nowhere and ends the run with a traceback
Render ==
    /\ pc = "render"
    /\ IF RenderRaises(contexts.xs)
       THEN /\ pc' = "crash"
            /\ err' = "render_exception"
            /\ UNCHANGED <<lines, context>>
       ELSE /\ lines' = RenderLines(contexts.xs)
            /\ context' = Str(RenderContexts(contexts.xs))
            /\ pc' = "complete"
            /\ UNCHANGED err
    /\ UNCHANGED <<argKey, envKey, doc, inputRead, passed, contexts, calls,
                   response, newsletter, outFile, stdout>>

\* lines 144-154 with run_completion, lines 88-103
Complete ==
    /\ pc = "complete"
    /\ calls' = calls + 1
    /\ \E r \in Responses :
        /\ response' = r
        /\ CASE r.kind = "error" ->
                  Fail("provider_error") /\ UNCHANGED newsletter
             [] r.kind = "no_choices" ->
                  pc' = "crash" /\ err' = "uncaught_exception" /\ UNCHANGED newsletter
             [] OTHER ->
                  /\ newsletter' = Str(Strip(ToText(RunCompletion(r))))
                  /\ pc' = "check_newsletter"
                  /\ UNCHANGED err
    /\ UNCHANGED <<argKey, envKey, doc, inputRead, passed, contexts, lines, context,
                   outFile, stdout>>

\* lines 156-157
CheckNewsletterSkipped ==
    /\ pc = "check_newsletter"
    /\ pc' = "write"
    /\ UNCHANGED <<argKey, envKey, doc, inputRead, passed, contexts, lines, context,
                   calls, response, newsletter, outFile, stdout, err>>

CheckNewsletter ==
    /\ pc = "check_newsletter"
    /\ IF ~Truthy(newsletter)
       THEN Fail("empty_newsletter")
       ELSE pc' = "write" /\ UNCHANGED err
    /\ UNCHANGED <<argKey, envKey, doc, inputRead, passed, contexts, lines, context,
                   calls, response, newsletter, outFile, stdout>>

\* lines 159-160; the file holds the JSON object {"LINK_CONTENT": newsletter}
WriteFile ==
    /\ pc = "write"
    /\ outFile' = Obj([LINK_CONTENT |-> newsletter])
    /\ pc' = "print"
    /\ UNCHANGED <<argKey, envKey, doc, inputRead, passed, contexts, lines, context,
                   calls, response, newsletter, stdout, err>>

\* line 161
PrintNewsletter ==
    /\ pc = "print"
    /\ stdout' = Append(stdout, newsletter.s)
    /\ pc' = "done"
    /\ UNCHANGED <<argKey, envKey, doc, inputRead, passed, contexts, lines, context,
                   calls, response, newsletter, outFile, err>>

----------------------------------------------------------------------------
(* Inputs *)

Msg(author, content) == Obj([author |-> author, content |-> content])
Link(url, posted_by, description) ==
    Obj([url |-> url, posted_by |-> posted_by, description |-> description])
Ctx(source, timestamp, messages, links) ==
    Obj([source |-> source, timestamp |-> timestamp, messages |-> messages,
         links |-> links])
Doc(cs) == Obj([contexts |-> cs])

\* context i of a dump whose texts all differ: message j says "m<i><j>", link j
\* is "u<i><j>" with description "d<i><j>"
Labelled(i, nm, nl) ==
    Ctx(Str(<<"s", DigitChars[i + 1]>>), Str(<<"t", DigitChars[i + 1]>>),
        List([j \in 1..nm |->
                Msg(Str(<<"A">>), Str(<<"m", DigitChars[i + 1], DigitChars[j + 1]>>))]),
        List([j \in 1..nl |->
                Link(Str(<<"u", DigitChars[i + 1], DigitChars[j + 1]>>), Str(<<"p">>),
                     Str(<<"d", DigitChars[i + 1], DigitChars[j + 1]>>))]))

\* dumps of 1..MaxCtx labelled contexts with 0..MaxItems messages and links each
OrderInputs ==
    UNION {{[i \in 1..n |-> Labelled(i, nm[i], nl[i])] :
                nm \in [1..n -> 0..MaxItems], nl \in [1..n -> 0..MaxItems]} :
           n \in 1..MaxCtx}

\* one context of one or two messages: author absent or given, content absent,
\* null or any text of up to MaxContentLen characters, line breaks included
MessageSet ==
    {Msg(a, c) : a \in {Absent, Str(<<"S">>)},
                 c \in {Absent, Null}
                       \cup {Str(x) : x \in StrUpTo({"a", "\n", "\r"}, MaxContentLen)}}
MessageInputs ==
    {<<Ctx(Absent, Absent, List(ms), ls)>> :
        ms \in {<<m>> : m \in MessageSet} \cup (MessageSet \X MessageSet),
        ls \in {Absent, List(<<Link(Str(<<"u">>), Absent, Absent)>>)}}

\* one context of one or two links: url and description absent, null, empty or
\* given (the description possibly ending in a blank)
LinkSet ==
    {Link(u, p, d) : u \in {Absent, Null, Str(<<>>), Str(<<"u">>)},
                     p \in {Absent, Str(<<"p">>)},
                     d \in {Absent, Null, Str(<<>>), Str(<<"d">>), Str(<<"d", " ">>)}}
LinkInputs ==
    {<<Ctx(Absent, Absent, ms, List(ls))>> :
        ms \in {Absent, List(<<Msg(Str(<<"S">>), Str(<<"a">>))>>)},
        ls \in {<<l>> : l \in LinkSet} \cup (LinkSet \X LinkSet)}

\* one context whose defaulted fields are absent, null, empty or given
Falsy == {Absent, Null, Str(<<>>)}
DefaultInputs ==
    {<<Ctx(s, t, ms, ls)>> :
        s \in Falsy \cup {Str(<<"s">>)},
        t \in Falsy \cup {Str(<<"t">>)},
        ms \in {Absent, Null, List(<<>>)}
               \cup {List(<<Msg(a, Str(<<"h">>))>>) : a \in Falsy \cup {Str(<<"S">>)}},
        ls \in {Absent, Null, List(<<>>)}
               \cup {List(<<Link(Str(<<"u">>), p, Absent)>>) :
                        p \in Falsy \cup {Str(<<"p">>)}}}

\* contexts with a sub-field of the wrong type
MalformedInputs ==
    {<<Num(5)>>, <<Null>>, <<Str(<<"a">>)>>,
     <<Ctx(Num(5), Num(0), Absent, Absent)>>,
     <<Ctx(Absent, Absent, Num(5), Absent)>>,
     <<Ctx(Absent, Absent, Num(0), Absent)>>,
     <<Ctx(Absent, Absent, Str(<<"a">>), Absent)>>,
     <<Ctx(Absent, Absent, List(<<Null>>), Absent)>>,
     <<Ctx(Absent, Absent, List(<<Num(5)>>), Absent)>>,
     <<Ctx(Absent, Absent, List(<<Msg(Num(7), Absent)>>), Absent)>>,
     <<Ctx(Absent, Absent, List(<<Msg(Absent, Num(5))>>), Absent)>>,
     <<Ctx(Absent, Absent, List(<<Msg(Absent, Num(0))>>), Absent)>>,
     <<Ctx(Absent, Absent, List(<<Msg(Absent, List(<<>>))>>), Absent)>>,
     <<Ctx(Absent, Absent, Absent, Num(5))>>,
     <<Ctx(Absent, Absent, Absent, Doc(Null))>>,
     <<Ctx(Absent, Absent, Absent, List(<<Null>>))>>,
     <<Ctx(Absent, Absent, Absent, List(<<Str(<<"a">>)>>))>>,
     <<Ctx(Absent, Absent, Absent, List(<<Link(Num(5), Num(7), Num(9))>>))>>}

RenderInputs ==
    OrderInputs \cup MessageInputs \cup LinkInputs \cup DefaultInputs
    \cup MalformedInputs

\* the context lists a dump of main can hold: empty, labelled contexts with
\* one message and one link each, or a malformed one
Payloads ==
    {<<>>, <<Num(5)>>, <<Ctx(Absent, Absent, List(<<Msg(Absent, Num(5))>>), Absent)>>}
    \cup {[i \in 1..n |-> Labelled(i, 1, 1)] : n \in 1..MaxCtx}

\* the documents json.loads can hand to load_contexts: both accepted shapes of
\* every payload, and documents of neither shape
Docs ==
    {List(cs) : cs \in Payloads} \cup {Doc(List(cs)) : cs \in Payloads}
    \cup {Null, Num(5), Str(<<"a">>), Doc(Absent), Doc(Null), Doc(Num(5)),
          Doc(Str(<<"a">>)), Doc(Doc(List(<<>>)))}

----------------------------------------------------------------------------
(* The run of main *)

Init ==
    /\ pc = "start"
    /\ argKey \in KeyValues
    /\ envKey \in KeyValues
    /\ doc \in Docs
    /\ inputRead = FALSE
    /\ passed = <<>>
    /\ contexts = Unset
    /\ lines = <<>>
    /\ context = Unset
    /\ calls = 0
    /\ response = [kind |-> "none"]
    /\ newsletter = Unset
    /\ outFile = NoFile
    /\ stdout = <<>>
    /\ err = "none"

Next ==
    \/ CheckKey
    \/ Load
    \/ CheckEmpty
    \/ Render
    \/ Complete
    \/ CheckNewsletter
    \/ WriteFile
    \/ PrintNewsletter

Spec == Init /\ [][Next]_vars

\* render_contexts applied to every input of RenderInputs: main stands at line
\* 142 with the pre-checks passed
RenderInit ==
    /\ pc = "render"
    /\ argKey = Str(<<"k">>)
    /\ envKey = Null
    /\ \E cs \in RenderInputs : doc = List(cs) /\ contexts = List(cs)
    /\ inputRead = TRUE
    /\ passed = <<"credential", "shape", "non_empty">>
    /\ lines = <<>>
    /\ context = Unset
    /\ calls = 0
    /\ response = [kind |-> "none"]
    /\ newsletter = Unset
    /\ outFile = NoFile
    /\ stdout = <<>>
    /\ err = "none"

RenderNext == Render

RenderSpec == RenderInit /\ [][RenderNext]_vars

----------------------------------------------------------------------------
(* What the claims speak of, stated apart from the operators above *)

\* a credential was given on the command line or in the environment
HasKey ==
    \/ argKey.t = "str" /\ argKey.s # <<>>
    \/ envKey.t = "str" /\ envKey.s # <<>>

\* the document is a bare array or an object with a `contexts` array
ShapeValid(d) ==
    \/ d.t = "list"
    \/ d.t = "obj" /\ "contexts" \in DOMAIN d.kv /\ d.kv.contexts.t = "list"

Payload(d) == IF d.t = "list" THEN d.xs ELSE d.kv.contexts.xs

\* the same payload in the other accepted shape
OtherShape(d) == IF d.t = "list" THEN Doc(d) ELSE d.kv.contexts

Blank(c) == c.t = "null" \/ \A i \in DOMAIN c.s : c.s[i] \in WhitespaceChars

NoOutput == outFile = NoFile /\ stdout = <<>>

Rendered == pc = "complete"

\* every field holds what the data model allows: a str, null or nothing in a
\* text field, a list of objects (or null or nothing) in messages and links
TextField(x) == x.t \in {"absent", "null", "str"}
ListField(x) ==
    \/ x.t \in {"absent", "null"}
    \/ x.t = "list" /\ \A i \in DOMAIN x.xs : x.xs[i].t = "obj"
WellTyped(cs) ==
    \A i \in DOMAIN cs :
        /\ cs[i].t = "obj"
        /\ TextField(cs[i].kv.source) /\ TextField(cs[i].kv.timestamp)
        /\ ListField(cs[i].kv.messages) /\ ListField(cs[i].kv.links)
        /\ cs[i].kv.messages.t = "list" =>
              \A j \in DOMAIN cs[i].kv.messages.xs :
                  /\ TextField(cs[i].kv.messages.xs[j].kv.author)
                  /\ TextField(cs[i].kv.messages.xs[j].kv.content)
        /\ cs[i].kv.links.t = "list" =>
              \A j \in DOMAIN cs[i].kv.links.xs :
                  /\ TextField(cs[i].kv.links.xs[j].kv.url)
                  /\ TextField(cs[i].kv.links.xs[j].kv.posted_by)
                  /\ TextField(cs[i].kv.links.xs[j].kv.description)

\* the text of a field, `default` when it is absent, null or empty
FieldText(x, default) == IF x.t = "str" /\ x.s # <<>> THEN x.s ELSE default
\* the elements of a list field, none when it is absent or null
FieldItems(x) == IF x.t = "list" THEN x.xs ELSE <<>>

\* the lines of a text as splitlines counts them: the positions where a line
\* terminator ends ("\r\n" is one terminator)
LineEnds(s) ==
    {i \in 1..Len(s) :
        s[i] \in LineBreakChars /\ ~(s[i] = "\r" /\ i < Len(s) /\ s[i + 1] = "\n")}
NumLines(s) ==
    Cardinality(LineEnds(s))
    + (IF s # <<>> /\ Len(s) \notin LineEnds(s) THEN 1 ELSE 0)
NthEnd(s, r) == CHOOSE e \in LineEnds(s) : Cardinality({x \in LineEnds(s) : x <= e}) = r
NthLine(s, r) ==
    LET first == IF r = 1 THEN 1 ELSE NthEnd(s, r - 1) + 1
        last == IF r > Cardinality(LineEnds(s)) THEN Len(s)
                ELSE LET e == NthEnd(s, r)
                     IN  IF s[e] = "\n" /\ e > 1 /\ s[e - 1] = "\r" THEN e - 2 ELSE e - 1
    IN  SubSeq(s, first, last)

RECURSIVE Sum(_)
Sum(ns) == IF ns = <<>> THEN 0 ELSE Head(ns) + Sum(Tail(ns))

\* how many lines the claims give a message, a link and a context
MsgCount(m) ==
    LET k == NumLines(FieldText(m.kv.content, <<>>)) IN IF k = 0 THEN 1 ELSE k
LinkCount(l) ==
    (IF FieldText(l.kv.url, <<>>) # <<>> THEN 1 ELSE 0)
    + (IF FieldText(l.kv.description, <<>>) # <<>> THEN 1 ELSE 0)
MsgsOf(c) == FieldItems(c.kv.messages)
LinksOf(c) == FieldItems(c.kv.links)
BlockLen(c) ==
    1 + Sum([j \in DOMAIN MsgsOf(c) |-> MsgCount(MsgsOf(c)[j])])
      + Sum([j \in DOMAIN LinksOf(c) |-> LinkCount(LinksOf(c)[j])]) + 1

\* where in `lines` the header of context i, its message j and its link j start
BlockStart(cs, i) == 1 + Sum([k \in 1..(i - 1) |-> BlockLen(cs[k])])
MsgStart(cs, i, j) ==
    BlockStart(cs, i) + 1 + Sum([k \in 1..(j - 1) |-> MsgCount(MsgsOf(cs[i])[k])])
LinkStart(cs, i, j) ==
    BlockStart(cs, i) + 1
    + Sum([k \in DOMAIN MsgsOf(cs[i]) |-> MsgCount(MsgsOf(cs[i])[k])])
    + Sum([k \in 1..(j - 1) |-> LinkCount(LinksOf(cs[i])[k])])
TotalLines(cs) == Sum([i \in DOMAIN cs |-> BlockLen(cs[i])])

----------------------------------------------------------------------------
(* Claims about the run of main, checked under Spec *)

\* C1: the file is written and the newsletter printed only after the one
\* completion call returned text that is not blank, a finished run has done
\* both, and a run that ended in an error has done neither.
C1_OutputOnlyAfterSuccess ==
    /\ (outFile # NoFile \/ stdout # <<>>) =>
          /\ calls = 1
          /\ response.kind = "content"
          /\ ~Blank(response.content)
          /\ err = "none"
    /\ err # "none" => NoOutput
    /\ pc = "done" =>
          /\ outFile = Obj([LINK_CONTENT |-> newsletter])
          /\ stdout = <<newsletter.s>>

C1_Witness == pc = "done" /\ outFile # NoFile /\ stdout # <<>> /\ calls = 1

\* C3: once the loader has run on a document of either accepted shape, main's
\* contexts are the payload, the very list the loader returns for the same
\* payload in the other shape, and the rendered text is the other shape's too.
C3_BothShapesLoadAlike ==
    (inputRead /\ ShapeValid(doc)) =>
        /\ ~LoadRaises(OtherShape(doc))
        /\ contexts = LoadContexts(OtherShape(doc))
        /\ contexts = List(Payload(doc))
        /\ context # Unset =>
              context = Str(RenderContexts(LoadContexts(OtherShape(doc)).xs))

C3_Witness == pc = "complete" /\ doc.t = "list" /\ Len(Payload(doc)) = 2

\* C4: when the document has neither accepted shape, or holds no contexts, the
\* run never gets past the loader's checks: it ends with the input-shape error
\* (or the no-contexts error) and nothing is rendered, requested or output.
C4_InvalidInputStops ==
    (~ShapeValid(doc) \/ Payload(doc) = <<>>) =>
        /\ pc \in {"start", "load", "check_empty", "exit"}
        /\ ~ShapeValid(doc) => pc # "check_empty"
        /\ (pc = "exit" /\ HasKey) =>
              err = (IF ShapeValid(doc) THEN "no_contexts" ELSE "input_shape")
        /\ lines = <<>> /\ context = Unset /\ calls = 0 /\ NoOutput

C4_Witness == pc = "exit" /\ err = "input_shape" /\ doc.t = "obj"

\* C5: once the request is issued, a provider failure of any caught class ends
\* the run with the provider error, content that is None or blank ends it with
\* the empty-newsletter error, and only content that is not blank gets to the
\* write.
C5_ProviderFailuresEndRun ==
    /\ response.kind = "error" =>
          pc = "exit" /\ err = "provider_error" /\ NoOutput
    /\ (response.kind = "content" /\ Blank(response.content)) =>
          /\ pc \in {"check_newsletter", "exit"}
          /\ pc = "exit" => err = "empty_newsletter"
          /\ newsletter = Str(<<>>)
          /\ NoOutput
    /\ pc \in {"write", "print", "done"} =>
          response.kind = "content" /\ ~Blank(response.content)

C5_Witness ==
    /\ err = "empty_newsletter"
    /\ response.content.t = "str" /\ response.content.s # <<>>

\* C10: at most one request is issued; it is issued only with a credential, a
\* document of valid shape and a non-empty context list, the three checks
\* passed in that order; without a credential the run ends with the
\* missing-credential error and the input file is never read.
C10_RequestAfterChecks ==
    /\ calls <= 1
    /\ \E n \in 0..3 : passed = SubSeq(<<"credential", "shape", "non_empty">>, 1, n)
    /\ calls = 1 =>
          /\ passed = <<"credential", "shape", "non_empty">>
          /\ HasKey /\ ShapeValid(doc) /\ Payload(doc) # <<>>
    /\ ~HasKey =>
          /\ ~inputRead /\ passed = <<>> /\ calls = 0
          /\ pc \in {"start", "exit"}
          /\ pc = "exit" => err = "missing_key"

C10_Witness == calls = 1 /\ err = "provider_error" /\ pc = "exit"

----------------------------------------------------------------------------
(* Claims about render_contexts, checked under RenderSpec *)

\* C2: rendering never raises, whatever the sub-fields hold.
C2_RenderNeverRaises == pc # "crash"

\* the text cut at its "\n" characters, the separator of line 85
CutLines(s) ==
    LET breaks == {i \in 1..Len(s) : s[i] = "\n"}
        n == Cardinality(breaks)
        Brk(k) == IF k = 0 THEN 0
                  ELSE IF k = n + 1 THEN Len(s) + 1
                  ELSE CHOOSE b \in breaks : Cardinality({x \in breaks : x <= b}) = k
    IN  [k \in 1..(n + 1) |-> SubSeq(s, Brk(k - 1) + 1, Brk(k) - 1)]

\* line 85 joins `lines` and strips the text: when no line holds a "\n" of its
\* own, the lines of the returned text are `lines` up to the last line that is
\* not blank, unchanged but for the whitespace at the end of that last line
HasInk(l) == \E q \in DOMAIN l : l[q] \notin WhitespaceChars
TextCarriesLines ==
    (\A p \in DOMAIN lines : \A q \in DOMAIN lines[p] : lines[p][q] # "\n") =>
        LET text == CutLines(context.s)
            last == CHOOSE p \in DOMAIN lines :
                        HasInk(lines[p]) /\ \A r \in (p + 1)..Len(lines) : ~HasInk(lines[r])
        IN  /\ Len(text) = last
            /\ \A p \in 1..last :
                  text[p] = IF p = last THEN RStrip(lines[p]) ELSE lines[p]

\* a dump whose contexts, messages and links are labelled by their positions
IsLabelled(cs) ==
    \A i \in DOMAIN cs :
        /\ cs[i].t = "obj" /\ cs[i].kv.messages.t = "list" /\ cs[i].kv.links.t = "list"
        /\ cs[i] = Labelled(i, Len(cs[i].kv.messages.xs), Len(cs[i].kv.links.xs))

\* the lines the claim expects of a labelled context, in the claimed order
LabelledOrder(i, nm, nl) ==
    << <<"=", "=", "=", " ", "s", DigitChars[i + 1], " ", "@", " ", "t",
         DigitChars[i + 1], " ", "=", "=", "=">> >>
    \o [j \in 1..nm |-> <<"A", ":", " ", "m", DigitChars[i + 1], DigitChars[j + 1]>>]
    \o Flatten([j \in 1..nl |->
          << LinkOpen \o <<"u", DigitChars[i + 1], DigitChars[j + 1]>> \o LinkBy
                \o <<"p">> \o LinkClose,
             DescOpen \o <<"d", DigitChars[i + 1], DigitChars[j + 1]>> >>])

\* C6: in the text of a labelled dump every expected line stands exactly once,
\* and the lines follow each other as the claim orders them: context by
\* context, in each its header, then its messages in input order, then its
\* links in input order.
C6_OrderPreserved ==
    (Rendered /\ IsLabelled(contexts.xs)) =>
        LET text == CutLines(context.s)
            want == Flatten([i \in DOMAIN contexts.xs |->
                        LabelledOrder(i, Len(contexts.xs[i].kv.messages.xs),
                                      Len(contexts.xs[i].kv.links.xs))])
            At(x) == {k \in DOMAIN text : text[k] = x}
            Pos(x) == CHOOSE k \in DOMAIN text : text[k] = x
        IN  /\ \A a \in DOMAIN want : Cardinality(At(want[a])) = 1
            /\ \A a \in 1..(Len(want) - 1) : Pos(want[a]) < Pos(want[a + 1])

C6_Witness ==
    /\ Rendered /\ IsLabelled(contexts.xs) /\ Len(contexts.xs) = 2
    /\ \A i \in 1..2 :
          Len(contexts.xs[i].kv.messages.xs) = 2 /\ Len(contexts.xs[i].kv.links.xs) = 2

\* C7: every link puts into `lines`, where its turn comes, the [link] line
\* exactly when its url is not empty and then the [description] line exactly
\* when its description is not empty, and nothing else; these lines reach the
\* returned text but for the whitespace stripped at its very end.
C7_LinkLines ==
    (Rendered /\ WellTyped(contexts.xs)) =>
        /\ Len(lines) = TotalLines(contexts.xs)
        /\ TextCarriesLines
        /\ \A i \in DOMAIN contexts.xs : \A j \in DOMAIN LinksOf(contexts.xs[i]) :
              LET l == LinksOf(contexts.xs[i])[j]
                  url == FieldText(l.kv.url, <<>>)
                  by == FieldText(l.kv.posted_by, UnknownName)
                  description == FieldText(l.kv.description, <<>>)
              IN  SubSeq(lines, LinkStart(contexts.xs, i, j),
                         LinkStart(contexts.xs, i, j) + LinkCount(l) - 1)
                  = (IF url # <<>>
                     THEN << <<" ", " ", " ", " ", "[", "l", "i", "n", "k", "]", " ">>
                             \o url \o LinkBy \o by \o LinkClose >>
                     ELSE <<>>)
                    \o (IF description # <<>>
                        THEN <<DescOpen \o description>> ELSE <<>>)

C7_Witness ==
    /\ Rendered /\ Len(contexts.xs) = 1 /\ WellTyped(contexts.xs)
    /\ Len(LinksOf(contexts.xs[1])) = 2
    /\ FieldText(LinksOf(contexts.xs[1])[1].kv.url, <<>>) = <<>>
    /\ FieldText(LinksOf(contexts.xs[1])[1].kv.description, <<>>) # <<>>
    /\ LinkCount(LinksOf(contexts.xs[1])[2]) = 0
    /\ Len(lines) = 3

Canon(c) ==
    Ctx(Str(FieldText(c.kv.source, UnknownFile)),
        Str(FieldText(c.kv.timestamp, UnknownTime)),
        List([j \in DOMAIN MsgsOf(c) |->
                Msg(Str(FieldText(MsgsOf(c)[j].kv.author, UnknownName)),
                    MsgsOf(c)[j].kv.content)]),
        List([j \in DOMAIN LinksOf(c) |->
                Link(LinksOf(c)[j].kv.url,
                     Str(FieldText(LinksOf(c)[j].kv.posted_by, UnknownName)),
                     LinksOf(c)[j].kv.description)]))

\* C9: the text is the text of the same dump with "unknown file", "unknown
\* time" and "Unknown" written into every source, timestamp, author and
\* posted_by that is absent, null or empty, and the empty list into every
\* absent or null messages and links; the header carries the defaults.
C9_EmptyLikeAbsent ==
    (Rendered /\ WellTyped(contexts.xs)) =>
        /\ context
            = Str(RenderContexts([i \in DOMAIN contexts.xs |-> Canon(contexts.xs[i])]))
        /\ \A i \in DOMAIN contexts.xs :
              lines[BlockStart(contexts.xs, i)]
              = <<"=", "=", "=", " ">>
                \o FieldText(contexts.xs[i].kv.source, UnknownFile) \o <<" ", "@", " ">>
                \o FieldText(contexts.xs[i].kv.timestamp, UnknownTime)
                \o <<" ", "=", "=", "=">>

C9_Witness ==
    /\ Rendered /\ Len(contexts.xs) = 1
    /\ contexts.xs[1].kv.source = Str(<<>>) /\ contexts.xs[1].kv.timestamp = Null
    /\ contexts.xs[1].kv.messages = Null
    /\ contexts.xs[1].kv.links.t = "list" /\ contexts.xs[1].kv.links.xs # <<>>
    /\ contexts.xs[1].kv.links.xs[1].kv.posted_by = Str(<<>>)

====
